---------------------------- MODULE Spec2Model ----------------------------
(***************************************************************************)
(* bufisk: resolve a buf version, make sure a verified buf binary for it   *)
(* is in the cache, and run it.                                            *)
(*                                                                         *)
(* Two state machines share this module.                                   *)
(*   Spec         the invocations of run(): existence check, download,     *)
(*                verification, installation and launch, with the          *)
(*                interrupt-signal goroutine, for the invocations of       *)
(*                Procs sharing one cache path.                            *)
(*   SpecVersion  getBufVersion(): the override variable and the walk      *)
(*                from the working directory up to the root.               *)
(*                                                                         *)
(* A string is a sequence of one-character strings.                        *)
(***************************************************************************)
EXTENDS Integers, Sequences, FiniteSets, TLC

\* ------------------------------------------------------------ bounds

\* The number of chunks io.Copy moves for one artifact.
ArtLen == 2

\* The deepest working directory below the filesystem root.
MaxDepth == 2

\* The longest string handed to validateBufVersion as BUF_VERSION.
MaxVersionLen == 6

\* The longest sha256.txt handed to getSha256HexForTxtData.
MaxManifestLen == 7

\* ------------------------------------------------------------ strings

Digits == {"0", "1", "2", "3", "4", "5", "6", "7", "8", "9"}

\* unicode.IsSpace, on the characters the model uses.
Whitespace == {" ", "\n", "\t"}

HasPrefix(s, prefix) ==
    /\ Len(prefix) <= Len(s)
    /\ SubSeq(s, 1, Len(prefix)) = prefix

HasSuffix(s, suffix) ==
    /\ Len(suffix) <= Len(s)
    /\ SubSeq(s, Len(s) - Len(suffix) + 1, Len(s)) = suffix

\* strings.Index, 1-based; 0 when sep does not occur in s.
Index(s, sep) ==
    LET hits == {i \in 1..Len(s) : HasPrefix(SubSeq(s, i, Len(s)), sep)}
    IN  IF hits = {} THEN 0 ELSE CHOOSE i \in hits : \A j \in hits : i <= j

\* strings.Split for a non-empty separator: the substrings between the
\* non-overlapping occurrences of sep, found left to right.
RECURSIVE Split(_, _)
Split(s, sep) ==
    LET i == Index(s, sep)
    IN  IF i = 0
        THEN <<s>>
        ELSE <<SubSeq(s, 1, i - 1)>> \o Split(SubSeq(s, i + Len(sep), Len(s)), sep)

RECURSIVE TrimLeft(_)
TrimLeft(s) ==
    IF s # <<>> /\ Head(s) \in Whitespace THEN TrimLeft(Tail(s)) ELSE s

RECURSIVE TrimRight(_)
TrimRight(s) ==
    IF s # <<>> /\ s[Len(s)] \in Whitespace
    THEN TrimRight(SubSeq(s, 1, Len(s) - 1))
    ELSE s

\* strings.TrimSpace
TrimSpace(s) == TrimRight(TrimLeft(s))

\* Whether strconv.Atoi(s) returns a nil error: an optional sign followed by
\* one or more decimal digits (no string of the model is long enough to
\* overflow an int).
AtoiOK(s) ==
    LET body == IF s # <<>> /\ Head(s) \in {"+", "-"} THEN Tail(s) ELSE s
    IN  /\ body # <<>>
        /\ \A i \in 1..Len(body) : body[i] \in Digits

\* ------------------------------------------------------------ version

useBufVersionEnvKey == "BUF_VERSION"

bufVersionFileName == ".bufversion"

newInvalidBufVersionError(bufVersion, source) ==
    [kind |-> "invalid", value |-> bufVersion, source |-> source]

validateBufVersion(bufVersion, source) ==
    LET split == Split(bufVersion, <<".">>)
    IN  IF Len(split) # 3
        THEN newInvalidBufVersionError(bufVersion, source)
        ELSE IF \E i \in 1..3 : ~AtoiOK(split[i])
        THEN newInvalidBufVersionError(bufVersion, source)
        ELSE [kind |-> "ok", value |-> bufVersion, source |-> source]

\* ------------------------------------------------------ version state

VARIABLES
    platform,      \* "posix" or "windows": the build the walk runs in
    envVersion,    \* the value of BUF_VERSION, <<>> when unset or empty
    getwdOK,       \* whether os.Getwd succeeds
    pwd,           \* the working directory, as its depth below the root
    files,         \* depth -> the .bufversion file of that directory
    vpc,           \* getBufVersion's position: "start", "walk", "done"
    curDirPath,    \* the walk's current directory, as its depth
    readFiles,     \* the depths whose .bufversion os.ReadFile was called on
    rereadFiles,   \* the depths whose .bufversion it was called on again
    result         \* what getBufVersion returned

versionVars ==
    <<platform, envVersion, getwdOK, pwd, files, vpc, curDirPath, readFiles,
      rereadFiles, result>>

Platforms == {"posix", "windows"}

Depths == 0..MaxDepth

\* The values BUF_VERSION takes: unset, a version, and a malformed one.
EnvValues ==
    { <<>>,
      <<"7", ".", "8", ".", "9">>,
      <<"v", "7", ".", "8", ".", "9">> }

\* The contents a readable .bufversion takes.
FileContents ==
    { <<"1", ".", "2", ".", "3", "\n">>,
      <<" ", "4", ".", "5", ".", "6">>,
      <<"1", ".", "2", "\n">>,
      <<>> }

MissingFile == [state |-> "missing", data |-> <<>>]

UnreadableFile == [state |-> "unreadable", data |-> <<>>]

ReadableFile(data) == [state |-> "ok", data |-> data]

FileStates ==
    {MissingFile, UnreadableFile} \cup {ReadableFile(d) : d \in FileContents}

NoResult == [kind |-> "none", value |-> <<>>, source |-> <<>>]

\* filepath.Join(curDirPath, bufVersionFileName), for the directory at depth d:
\* the path's components below the root.
FilePath(d) == [i \in 1..d |-> "dir"] \o <<bufVersionFileName>>

\* Mutant of ReadFileOK: a file whose content is no version counts as not
\* found, and the walk goes on to the parent.
ReadFileOKSkippingMalformed(d) ==
    /\ files[d].state = "ok"
    /\ validateBufVersion(TrimSpace(files[d].data), <<>>).kind = "ok"

\* os.ReadFile returns a nil error.
ReadFileOK(d) == files[d].state = "ok"

\* curDirPath == string(os.PathSeparator): the root of a POSIX filesystem is
\* "/", the separator itself; a Windows root is a drive such as "C:\\", which
\* is not the separator "\\".
IsPathSeparator(d) == platform = "posix" /\ d = 0

\* filepath.Dir: the parent directory; the root is its own parent.
Dir(d) == IF d = 0 THEN 0 ELSE d - 1

\* Mutant of OverrideSet: a readable .bufversion in the working directory
\* wins over BUF_VERSION.
OverrideSetUnlessFile == envVersion # <<>> /\ files[pwd].state # "ok"

\* os.Getenv(useBufVersionEnvKey) != ""
OverrideSet == envVersion # <<>>

VersionInit ==
    /\ platform \in Platforms
    /\ envVersion \in EnvValues
    /\ getwdOK \in BOOLEAN
    /\ pwd \in Depths
    /\ files \in [Depths -> FileStates]
    /\ vpc = "start"
    /\ curDirPath = 0
    /\ readFiles = {}
    /\ rereadFiles = {}
    /\ result = NoResult

\* getBufVersion up to the loop: the override, then os.Getwd.
GetBufVersionStart ==
    /\ vpc = "start"
    /\ IF OverrideSet
       THEN /\ result' = validateBufVersion(envVersion, <<useBufVersionEnvKey>>)
            /\ vpc' = "done"
            /\ UNCHANGED curDirPath
       ELSE IF ~getwdOK
       THEN /\ result' = [kind |-> "getwd", value |-> <<>>, source |-> <<>>]
            /\ vpc' = "done"
            /\ UNCHANGED curDirPath
       ELSE /\ curDirPath' = pwd
            /\ vpc' = "walk"
            /\ UNCHANGED result
    /\ UNCHANGED <<platform, envVersion, getwdOK, pwd, files, readFiles, rereadFiles>>

\* One iteration of the loop of getBufVersion.
GetBufVersionWalk ==
    /\ vpc = "walk"
    /\ readFiles' = readFiles \cup {curDirPath}
    /\ rereadFiles' = rereadFiles \cup (readFiles \cap {curDirPath})
    /\ IF ReadFileOK(curDirPath)
       THEN /\ result' = validateBufVersion(TrimSpace(files[curDirPath].data),
                                            FilePath(curDirPath))
            /\ vpc' = "done"
            /\ UNCHANGED curDirPath
       ELSE IF IsPathSeparator(curDirPath)
       THEN /\ result' = [kind |-> "unresolved", value |-> <<>>,
                          source |-> <<useBufVersionEnvKey, bufVersionFileName>>]
            /\ vpc' = "done"
            /\ UNCHANGED curDirPath
       ELSE /\ curDirPath' = Dir(curDirPath)
            /\ UNCHANGED <<vpc, result>>
    /\ UNCHANGED <<platform, envVersion, getwdOK, pwd, files>>

\* ------------------------------------------------------- cache path

VARIABLES
    environ,       \* environment variable -> its value, a path; <<>> when the
                   \*   variable is unset or empty
    unameM,        \* the architecture name the build was made for
    cpc,           \* run()'s position: "cacheDir", "join", "stat", then
                   \*   "statted" or "failed"
    cacheDirPath,  \* run()'s cacheDirPath
    bufFilePath,   \* run()'s bufFilePath
    cacheErr,      \* the error run() returned, "nil" for none
    statPaths      \* the paths os.Stat was called on

cacheVars == <<environ, unameM, cpc, cacheDirPath, bufFilePath, cacheErr, statPaths>>

cacheDirPathEnvKey == "BUFISK_CACHE_DIR"

\* The variables run() and getDefaultCacheDirPath read, and the one the
\* README names.
EnvKeys ==
    {cacheDirPathEnvKey, "BUF_CACHE_DIR", "XDG_CACHE_HOME", "HOME", "LOCALAPPDATA"}

\* A path is the sequence of its components, and a component a string: a
\* sequence of strings, so that a version is one as it stands.
Component(name) == <<name>>

\* The value a variable has when it is set: a directory named after it.
SetValue(key) == <<Component(key)>>

Architectures == {"x86_64", "arm64"}

\* const unameS of the build.
unameS == IF platform = "windows" THEN "Windows" ELSE "Linux"

\* filepath.Join, on paths that hold no empty, "." or ".." component.
Join(path, components) == path \o components

\* Mutant of getDefaultCacheDirPath: $HOME/.cache is tried before
\* $XDG_CACHE_HOME.
getDefaultCacheDirPathHomeFirst ==
    IF platform = "windows"
    THEN IF environ["LOCALAPPDATA"] # <<>>
         THEN [path |-> environ["LOCALAPPDATA"], err |-> "nil"]
         ELSE [path |-> <<>>, err |-> "%LocalAppData% is not set"]
    ELSE IF environ["HOME"] # <<>>
         THEN [path |-> Join(environ["HOME"], <<Component(".cache")>>), err |-> "nil"]
         ELSE IF environ["XDG_CACHE_HOME"] # <<>>
         THEN [path |-> environ["XDG_CACHE_HOME"], err |-> "nil"]
         ELSE [path |-> <<>>, err |-> "$XDG_CACHE_HOME and $HOME are not set"]

\* getDefaultCacheDirPath of the build: the windows file, or the unix one.
getDefaultCacheDirPath ==
    IF platform = "windows"
    THEN IF environ["LOCALAPPDATA"] # <<>>
         THEN [path |-> environ["LOCALAPPDATA"], err |-> "nil"]
         ELSE [path |-> <<>>, err |-> "%LocalAppData% is not set"]
    ELSE IF environ["XDG_CACHE_HOME"] # <<>>
         THEN [path |-> environ["XDG_CACHE_HOME"], err |-> "nil"]
         ELSE IF environ["HOME"] # <<>>
         THEN [path |-> Join(environ["HOME"], <<Component(".cache")>>), err |-> "nil"]
         ELSE [path |-> <<>>, err |-> "$XDG_CACHE_HOME and $HOME are not set"]

\* The cache-path part of run() is not running: Spec takes its outcome in
\* RunStart.
CacheIdle ==
    /\ environ = [k \in EnvKeys |-> <<>>]
    /\ unameM = "x86_64"
    /\ cpc = "cacheDir"
    /\ cacheDirPath = <<>>
    /\ bufFilePath = <<>>
    /\ cacheErr = "nil"
    /\ statPaths = {}

\* run(): cacheDirPath := os.Getenv(cacheDirPathEnvKey), and the default with
\* "bufisk" joined to it when that is empty.
RunCacheDirPath ==
    /\ cpc = "cacheDir"
    /\ IF environ[cacheDirPathEnvKey] # <<>>
       THEN /\ cacheDirPath' = environ[cacheDirPathEnvKey]
            /\ cpc' = "join"
            /\ UNCHANGED cacheErr
       ELSE IF getDefaultCacheDirPath.err # "nil"
       THEN /\ cacheErr' = getDefaultCacheDirPath.err
            /\ cpc' = "failed"
            /\ UNCHANGED cacheDirPath
       ELSE /\ cacheDirPath' = Join(getDefaultCacheDirPath.path, <<Component("bufisk")>>)
            /\ cpc' = "join"
            /\ UNCHANGED cacheErr
    /\ UNCHANGED <<environ, unameM, bufFilePath, statPaths>>

\* run(): bufFilePath := filepath.Join(cacheDirPath, unameS, unameM, "releases",
\* "buf", bufVersion, "bin", "buf")
RunBufFilePath ==
    /\ cpc = "join"
    /\ bufFilePath' = Join(cacheDirPath,
                           << Component(unameS), Component(unameM),
                              Component("releases"), Component("buf"), result.value,
                              Component("bin"), Component("buf") >>)
    /\ cpc' = "stat"
    /\ UNCHANGED <<environ, unameM, cacheDirPath, cacheErr, statPaths>>

\* run(): os.Stat(bufFilePath)
RunStat ==
    /\ cpc = "stat"
    /\ statPaths' = statPaths \cup {bufFilePath}
    /\ cpc' = "statted"
    /\ UNCHANGED <<environ, unameM, cacheDirPath, bufFilePath, cacheErr>>

\* ----------------------------------------------------- pipeline data

\* The invocations of bufisk that share one cache path.
Procs == {"A", "B"}

\* The bodies the release location serves for the artifact; each is ArtLen
\* chunks long, and chunk i of artifact a is written <<a, i>> on disk.
Artifacts == {"art1", "art2"}

\* hex.EncodeToString(sha256.Sum(...)): distinct artifacts, distinct digests.
Sha256Of(art) == IF art = "art1" THEN <<"1">> ELSE <<"2">>

\* fmt.Sprintf("buf-%s-%s%s", unameS, unameM, executableSuffix)
fileName == <<"f">>

\* The bodies served for sha256.txt: the record of either artifact, a record
\* with one space, and a manifest without a record for fileName.
Manifests ==
    { <<"1", " ", " ", "f", "\n">>,
      <<"2", " ", " ", "f", "\n">>,
      <<"1", " ", "f", "\n">>,
      <<"1", " ", " ", "g", "\n">> }

\* The manifests the holder of the trusted key signed.
SignedManifests ==
    { <<"1", " ", " ", "f", "\n">>,
      <<"2", " ", " ", "f", "\n">> }

\* publicKey.ID() of minisignPublicKey.
minisignPublicKey == "trusted"

\* A body served for sha256.txt.minisig: whether signature.UnmarshalText
\* accepts it, the key identifier it carries, the key that made it and the
\* bytes it was made over.
NoSignature == [wf |-> FALSE, keyID |-> "none", signedBy |-> "none", data |-> <<>>]

MalformedSignature ==
    [wf |-> FALSE, keyID |-> "garbage", signedBy |-> "none", data |-> <<>>]

\* What the holder of the trusted key published: its signature over d.
TrustedSignature(d) ==
    [wf |-> TRUE, keyID |-> "trusted", signedBy |-> "trusted", data |-> d]

\* A signature another key made over d, carrying the identifier keyID.
OtherSignature(keyID, d) ==
    [wf |-> TRUE, keyID |-> keyID, signedBy |-> "other", data |-> d]

\* The trusted key's signature over d with the key identifier field rewritten:
\* the signature bytes verify, the identifier is another key's.
RelabelledSignature(keyID, d) ==
    [wf |-> TRUE, keyID |-> keyID, signedBy |-> "trusted", data |-> d]

\* The bodies served for sha256.txt.minisig: bytes that do not parse, the trusted
\* signature of either signed manifest, signatures another key made, under
\* its own identifier or under the trusted key's, and a trusted signature
\* under another identifier.
Signatures ==
    {MalformedSignature}
    \cup {TrustedSignature(d) : d \in SignedManifests}
    \cup {OtherSignature(k, <<"2", " ", " ", "f", "\n">>) : k \in {"other", "trusted"}}
    \cup {RelabelledSignature("other", <<"1", " ", " ", "f", "\n">>)}

\* minisign.Verify(publicKey, data, rawSignature)
minisignVerify(publicKey, data, signature) ==
    /\ signature.signedBy = publicKey
    /\ signature.data = data

\* Mutant of verifySha256TxtData: the key identifiers are compared and the
\* result of minisign.Verify is not looked at.
verifySha256TxtDataKeyIDOnly(sha256TxtData, sha256TxtMinisigData) ==
    IF ~sha256TxtMinisigData.wf
    THEN "signature.UnmarshalText"
    ELSE IF sha256TxtMinisigData.keyID # minisignPublicKey
    THEN "key IDs do not match"
    ELSE "nil"

\* The error verifySha256TxtData returns, "nil" for none.
verifySha256TxtData(sha256TxtData, sha256TxtMinisigData) ==
    IF ~sha256TxtMinisigData.wf
    THEN "signature.UnmarshalText"
    ELSE IF sha256TxtMinisigData.keyID # minisignPublicKey
    THEN "key IDs do not match"
    ELSE IF ~minisignVerify(minisignPublicKey, sha256TxtData, sha256TxtMinisigData)
    THEN "signature verification failed"
    ELSE "nil"

\* Mutant of ReachesMinisignVerify: minisign.Verify is called on every
\* signature that parses, before the key identifiers are compared.
ReachesMinisignVerifyUnchecked(sha256TxtMinisigData) == sha256TxtMinisigData.wf

\* Whether verifySha256TxtData reaches its call of minisign.Verify.
ReachesMinisignVerify(sha256TxtMinisigData) ==
    /\ sha256TxtMinisigData.wf
    /\ sha256TxtMinisigData.keyID = minisignPublicKey

\* The loop of getSha256HexForTxtData over the lines from index i on.
RECURSIVE ScanLines(_, _, _)
ScanLines(lines, i, name) ==
    IF i > Len(lines)
    THEN [err |-> "could not find", hex |-> <<>>]
    ELSE IF HasSuffix(lines[i], name)
    THEN LET split == Split(lines[i], <<" ", " ">>)
         IN  IF Len(split) # 2
             THEN [err |-> "invalid sha256.txt line", hex |-> <<>>]
             ELSE [err |-> "nil", hex |-> split[1]]
    ELSE ScanLines(lines, i + 1, name)

\* A variant in which the last line that ends with the name decides.
getSha256HexForTxtDataLastLine(sha256TxtData, name) ==
    LET lines == Split(sha256TxtData, <<"\n">>)
    IN  ScanLines([i \in 1..Len(lines) |-> lines[Len(lines) + 1 - i]], 1, name)

getSha256HexForTxtData(sha256TxtData, name) ==
    ScanLines(Split(sha256TxtData, <<"\n">>), 1, name)

\* ---------------------------------------------------- pipeline state

VARIABLES
    pc,               \* invocation -> its position in run()
    interrupt,        \* invocation -> "none", "pending" (a signal is in
                      \*   interruptSignalC), "cancelled" (cancel() was called)
    blockedInterrupt, \* invocation -> the signal came, and cancel() was called,
                      \*   while it was blocked in one suspension point or more
    tempFile,         \* invocation -> the file os.CreateTemp made for it
    local,            \* invocation -> the locals of downloadBufToFilePath
    runErr,           \* invocation -> the error run() is returning
    requests,         \* invocation -> the resources it sent a GET for
    steps,            \* invocation -> the steps that succeeded, in order
    outcome,          \* invocation -> {its exit status}, {} while it runs
    stderr,           \* invocation -> the lines main and run printed
    launched,         \* invocation -> what the child was started on
    bufFile,          \* the file at bufFilePath, shared by the invocations
    matched           \* the artifacts whose hash equalled a verified manifest's

pipelineVars ==
    <<pc, interrupt, blockedInterrupt, tempFile, local, runErr, requests, steps,
      outcome, stderr, launched, bufFile, matched>>

vars == <<versionVars, pipelineVars, cacheVars>>

NoTemp == [exists |-> FALSE, art |-> "none", complete |-> FALSE]

NoBufFile == [exists |-> FALSE, content |-> <<>>, mode |-> "none"]

NoLocal ==
    [ sha256TxtData |-> <<>>,
      sha256TxtMinisigData |-> NoSignature,
      sha256ExpectedHex |-> <<>>,
      sha256Hex |-> <<>>,
      offset |-> 0 ]

Err(name) == [name |-> name, expected |-> <<>>, got |-> <<>>]

NilErr == Err("nil")

\* No child yet: whether one was started, what the file held when it was, and
\* the exit code of the child once it has ended ({} until then).
NotLaunched == [started |-> FALSE, content |-> <<>>, code |-> {}]

\* The blocking steps: the three downloads and the wait for the child.
SuspensionPoints ==
    {"artifactInFlight", "artifactBody", "sha256TxtInFlight", "minisigInFlight", "wait"}

\* ctx.Done() is closed.
CtxDone(p) == interrupt[p] = "cancelled"

\* The whole of artifact art, as it lies on disk.
Whole(art) == [i \in 1..ArtLen |-> <<art, i>>]

\* file.Write of chunk at chunk offset off (0-based) of a file holding content: a
\* write past the end leaves a hole of zeros before it.
WriteAt(content, off, chunk) ==
    IF off < Len(content)
    THEN [content EXCEPT ![off + 1] = chunk]
    ELSE content \o [i \in 1..(off - Len(content)) |-> <<"zero", 0>>] \o <<chunk>>

PipelineInit ==
    /\ pc = [p \in Procs |-> "run"]
    /\ interrupt = [p \in Procs |-> "none"]
    /\ blockedInterrupt = [p \in Procs |-> FALSE]
    /\ tempFile = [p \in Procs |-> NoTemp]
    /\ local = [p \in Procs |-> NoLocal]
    /\ runErr = [p \in Procs |-> NilErr]
    /\ requests = [p \in Procs |-> <<>>]
    /\ steps = [p \in Procs |-> <<>>]
    /\ outcome = [p \in Procs |-> {}]
    /\ stderr = [p \in Procs |-> <<>>]
    /\ launched = [p \in Procs |-> NotLaunched]
    /\ bufFile = NoBufFile
    /\ matched = {}

\* main, once run() has returned err: the exit status and what is printed.
\* The locals of the invocation are gone with it.
Exit(p, err) ==
    /\ pc' = [pc EXCEPT ![p] = "done"]
    /\ runErr' = [runErr EXCEPT ![p] = err]
    /\ local' = [local EXCEPT ![p] = NoLocal]
    /\ IF err.name = "nil"
       THEN /\ outcome' = [outcome EXCEPT ![p] = {0}]
            /\ UNCHANGED stderr
       ELSE /\ outcome' = [outcome EXCEPT ![p] = {1}]
            /\ stderr' = [stderr EXCEPT ![p] = Append(@, err)]

\* downloadBufToFilePath returns err after its defer was registered: the
\* deferred os.Remove is what runs next.
Return(p, err) ==
    /\ pc' = [pc EXCEPT ![p] = "deferRemove"]
    /\ runErr' = [runErr EXCEPT ![p] = err]
    /\ UNCHANGED local

Did(p, step) == steps' = [steps EXCEPT ![p] = Append(@, step)]

\* run() up to the existence check: the signal goroutine is started, the
\* version resolved and the cache directory found.
RunStart(p) ==
    /\ pc[p] = "run"
    /\ \/ /\ pc' = [pc EXCEPT ![p] = "stat"]
          /\ UNCHANGED <<runErr, local, outcome, stderr>>
       \/ \E e \in {"getBufVersion", "getDefaultCacheDirPath"} : Exit(p, Err(e))
    /\ UNCHANGED <<interrupt, blockedInterrupt, tempFile, requests, steps,
                   launched, bufFile, matched>>

\* Mutant of StatFails: the result of os.Stat is ignored and the download
\* always runs.
StatFailsAlways(file) == TRUE

\* _, err := os.Stat(bufFilePath); err != nil
StatFails(file) == ~file.exists

\* Mutant of Stat: on a miss the manifest is downloaded first, and the
\* artifact is not fetched before it.
StatManifestFirst(p) ==
    /\ pc[p] = "stat"
    /\ pc' = [pc EXCEPT ![p] = IF StatFails(bufFile) THEN "downloadSha256Txt" ELSE "exec"]
    /\ Did(p, IF bufFile.exists THEN "hit" ELSE "miss")
    /\ UNCHANGED <<interrupt, blockedInterrupt, tempFile, local, runErr, requests,
                   outcome, stderr, launched, bufFile, matched>>

\* if _, err := os.Stat(bufFilePath); err != nil { download } and so on: steps
\* records what was at the path, "hit" for a file and "miss" for none.
Stat(p) ==
    /\ pc[p] = "stat"
    /\ pc' = [pc EXCEPT ![p] = IF StatFails(bufFile) THEN "downloadTempFile" ELSE "exec"]
    /\ Did(p, IF bufFile.exists THEN "hit" ELSE "miss")
    /\ UNCHANGED <<interrupt, blockedInterrupt, tempFile, local, runErr, requests,
                   outcome, stderr, launched, bufFile, matched>>

\* download() up to http.DefaultClient.Do sending the request for the
\* artifact: with ctx done, Do returns its error and nothing is sent.
ArtifactRequest(p) ==
    /\ pc[p] = "downloadTempFile"
    /\ IF CtxDone(p)
       THEN /\ Exit(p, Err("could not download buf"))
            /\ UNCHANGED requests
       ELSE /\ requests' = [requests EXCEPT ![p] = Append(@, "artifact")]
            /\ pc' = [pc EXCEPT ![p] = "artifactInFlight"]
            /\ UNCHANGED <<runErr, local, outcome, stderr>>
    /\ UNCHANGED <<interrupt, blockedInterrupt, tempFile, steps, launched,
                   bufFile, matched>>

\* The response for the artifact: a transport error (always so once ctx is
\* done), a status other than 200 or a failing os.CreateTemp end run();
\* otherwise the temporary file exists, empty, and the body is being read.
ArtifactResponse(p) ==
    /\ pc[p] = "artifactInFlight"
    /\ \/ /\ Exit(p, Err("could not download buf"))
          /\ UNCHANGED tempFile
       \/ /\ ~CtxDone(p)
          /\ \E art \in Artifacts :
                tempFile' = [tempFile EXCEPT
                               ![p] = [exists |-> TRUE, art |-> art, complete |-> FALSE]]
          /\ pc' = [pc EXCEPT ![p] = "artifactBody"]
          /\ UNCHANGED <<runErr, local, outcome, stderr>>
    /\ UNCHANGED <<interrupt, blockedInterrupt, requests, steps, launched,
                   bufFile, matched>>

\* io.Copy(file, reader), file.Close and response.Body.Close in
\* downloadTempFile and download: when one of them fails (io.Copy always does
\* once ctx is done) download returns the error, downloadTempFile returns no
\* path, and downloadBufToFilePath returns before its defer is registered.
ArtifactBody(p) ==
    /\ pc[p] = "artifactBody"
    /\ \/ /\ Exit(p, Err("could not download buf"))
          /\ UNCHANGED tempFile
       \/ /\ ~CtxDone(p)
          /\ tempFile' = [tempFile EXCEPT ![p].complete = TRUE]
          /\ pc' = [pc EXCEPT ![p] = "downloadSha256Txt"]
          /\ UNCHANGED <<runErr, local, outcome, stderr>>
    /\ UNCHANGED <<interrupt, blockedInterrupt, requests, steps, launched,
                   bufFile, matched>>

\* downloadData(ctx, getFileURL(bufVersion, "sha256.txt")): the request.
Sha256TxtRequest(p) ==
    /\ pc[p] = "downloadSha256Txt"
    /\ IF CtxDone(p)
       THEN /\ Return(p, Err("download sha256.txt"))
            /\ UNCHANGED requests
       ELSE /\ requests' = [requests EXCEPT ![p] = Append(@, "sha256.txt")]
            /\ pc' = [pc EXCEPT ![p] = "sha256TxtInFlight"]
            /\ UNCHANGED <<runErr, local>>
    /\ UNCHANGED <<interrupt, blockedInterrupt, tempFile, steps, outcome, stderr,
                   launched, bufFile, matched>>

\* Mutant of Sha256TxtResponse: a failed download of sha256.txt is tried
\* again.
Sha256TxtResponseRetrying(p) ==
    /\ pc[p] = "sha256TxtInFlight"
    /\ \/ /\ pc' = [pc EXCEPT ![p] = "downloadSha256Txt"]
          /\ UNCHANGED <<runErr, local>>
       \/ /\ ~CtxDone(p)
          /\ \E data \in Manifests :
                local' = [local EXCEPT ![p].sha256TxtData = data]
          /\ pc' = [pc EXCEPT ![p] = "downloadMinisig"]
          /\ UNCHANGED runErr
    /\ UNCHANGED <<interrupt, blockedInterrupt, tempFile, requests, steps, outcome,
                   stderr, launched, bufFile, matched>>

\* The response for sha256.txt, read whole by io.ReadAll.
Sha256TxtResponse(p) ==
    /\ pc[p] = "sha256TxtInFlight"
    /\ \/ Return(p, Err("download sha256.txt"))
       \/ /\ ~CtxDone(p)
          /\ \E data \in Manifests :
                local' = [local EXCEPT ![p].sha256TxtData = data]
          /\ pc' = [pc EXCEPT ![p] = "downloadMinisig"]
          /\ UNCHANGED runErr
    /\ UNCHANGED <<interrupt, blockedInterrupt, tempFile, requests, steps, outcome,
                   stderr, launched, bufFile, matched>>

\* downloadData(ctx, getFileURL(bufVersion, "sha256.txt.minisig")): the request.
MinisigRequest(p) ==
    /\ pc[p] = "downloadMinisig"
    /\ IF CtxDone(p)
       THEN /\ Return(p, Err("download sha256.txt.minisig"))
            /\ UNCHANGED requests
       ELSE /\ requests' = [requests EXCEPT ![p] = Append(@, "sha256.txt.minisig")]
            /\ pc' = [pc EXCEPT ![p] = "minisigInFlight"]
            /\ UNCHANGED <<runErr, local>>
    /\ UNCHANGED <<interrupt, blockedInterrupt, tempFile, steps, outcome, stderr,
                   launched, bufFile, matched>>

\* The response for sha256.txt.minisig.
MinisigResponse(p) ==
    /\ pc[p] = "minisigInFlight"
    /\ \/ Return(p, Err("download sha256.txt.minisig"))
       \/ /\ ~CtxDone(p)
          /\ \E data \in Signatures :
                local' = [local EXCEPT ![p].sha256TxtMinisigData = data]
          /\ pc' = [pc EXCEPT ![p] = "verify"]
          /\ UNCHANGED runErr
    /\ UNCHANGED <<interrupt, blockedInterrupt, tempFile, requests, steps, outcome,
                   stderr, launched, bufFile, matched>>

\* verifySha256TxtData(sha256TxtData, sha256TxtMinisigData)
Verify(p) ==
    /\ pc[p] = "verify"
    /\ LET sig == local[p].sha256TxtMinisigData
           err == verifySha256TxtData(local[p].sha256TxtData, sig)
           called == IF ReachesMinisignVerify(sig) THEN <<"minisign.Verify">> ELSE <<>>
       IN  IF err = "nil"
           THEN /\ steps' = [steps EXCEPT ![p] = @ \o called \o <<"verified">>]
                /\ pc' = [pc EXCEPT ![p] = "getSha256Hex"]
                /\ UNCHANGED <<runErr, local>>
           ELSE /\ steps' = [steps EXCEPT ![p] = @ \o called]
                /\ Return(p, Err(err))
    /\ UNCHANGED <<interrupt, blockedInterrupt, tempFile, requests, outcome, stderr,
                   launched, bufFile, matched>>

\* sha256ExpectedHex, err := getSha256HexForTxtData(sha256TxtData, fileName)
GetSha256Hex(p) ==
    /\ pc[p] = "getSha256Hex"
    /\ LET got == getSha256HexForTxtData(local[p].sha256TxtData, fileName)
       IN  IF got.err = "nil"
           THEN /\ local' = [local EXCEPT ![p].sha256ExpectedHex = got.hex]
                /\ Did(p, "hashRead")
                /\ pc' = [pc EXCEPT ![p] = "hashFile"]
                /\ UNCHANGED runErr
           ELSE /\ Return(p, Err(got.err))
                /\ UNCHANGED steps
    /\ UNCHANGED <<interrupt, blockedInterrupt, tempFile, requests, outcome, stderr,
                   launched, bufFile, matched>>

\* sha256Hex, err := hashFile(tempFilePath): the digest of the temporary
\* file, or the error of os.Open, io.Copy or file.Close.
HashFile(p) ==
    /\ pc[p] = "hashFile"
    /\ \/ /\ local' = [local EXCEPT ![p].sha256Hex = Sha256Of(tempFile[p].art)]
          /\ Did(p, "hashed")
          /\ pc' = [pc EXCEPT ![p] = "compare"]
          /\ UNCHANGED runErr
       \/ /\ Return(p, Err("could not hash"))
          /\ UNCHANGED steps
    /\ UNCHANGED <<interrupt, blockedInterrupt, tempFile, requests, outcome, stderr,
                   launched, bufFile, matched>>

\* Mutant of HashesDiffer: the computed hash is compared with itself.
HashesDifferSelf(sha256Hex, sha256ExpectedHex) == sha256Hex # sha256Hex

\* sha256Hex != sha256ExpectedHex
HashesDiffer(sha256Hex, sha256ExpectedHex) == sha256Hex # sha256ExpectedHex

\* fmt.Errorf("sha256 mismatch for %s: expected %q got %q", fileName, sha256Hex,
\* sha256ExpectedHex)
MismatchError(sha256Hex, sha256ExpectedHex) ==
    [name |-> "sha256 mismatch", expected |-> sha256Hex, got |-> sha256ExpectedHex]

\* if sha256Hex != sha256ExpectedHex { return fmt.Errorf(...) }
Compare(p) ==
    /\ pc[p] = "compare"
    /\ IF HashesDiffer(local[p].sha256Hex, local[p].sha256ExpectedHex)
       THEN /\ Return(p, MismatchError(local[p].sha256Hex, local[p].sha256ExpectedHex))
            /\ UNCHANGED <<steps, matched>>
       ELSE /\ Did(p, "matched")
            /\ matched' = matched \cup {tempFile[p].art}
            /\ pc' = [pc EXCEPT ![p] = "copyFile"]
            /\ UNCHANGED <<runErr, local>>
    /\ UNCHANGED <<interrupt, blockedInterrupt, tempFile, requests, outcome, stderr,
                   launched, bufFile>>

\* copyFile: os.MkdirAll(filepath.Dir(toFilePath), 0700) and os.Open(fromFilePath).
CopyOpen(p) ==
    /\ pc[p] = "copyFile"
    /\ \/ /\ pc' = [pc EXCEPT ![p] = "create"]
          /\ UNCHANGED <<runErr, local>>
       \/ Return(p, Err("copyFile"))
    /\ UNCHANGED <<interrupt, blockedInterrupt, tempFile, requests, steps, outcome,
                   stderr, launched, bufFile, matched>>

\* What os.Create(toFilePath) leaves at the path: a new empty file, or the
\* existing file truncated, its mode kept.
Created(file) ==
    [ exists |-> TRUE,
      content |-> <<>>,
      mode |-> IF file.exists THEN file.mode ELSE "rw" ]

\* The file at toFilePath is being executed: the child of another invocation
\* was started on it and has not ended.
BeingExecuted(p) == \E q \in Procs \ {p} : pc[q] = "wait"

\* copyFile: outputFile, err := os.Create(toFilePath). Opening for writing a
\* file that is being executed fails where the system refuses it (ETXTBSY on
\* Linux, a sharing violation on Windows) and succeeds elsewhere.
CopyCreate(p) ==
    /\ pc[p] = "create"
    /\ \/ /\ bufFile' = Created(bufFile)
          /\ local' = [local EXCEPT ![p].offset = 0]
          /\ Did(p, "created")
          /\ pc' = [pc EXCEPT ![p] = "write"]
          /\ UNCHANGED runErr
       \/ /\ BeingExecuted(p)
          /\ Return(p, Err("text file busy"))
          /\ UNCHANGED <<steps, bufFile>>
       \/ /\ Return(p, Err("copyFile"))
          /\ UNCHANGED <<steps, bufFile>>
    /\ UNCHANGED <<interrupt, blockedInterrupt, tempFile, requests, outcome, stderr,
                   launched, matched>>

\* copyFile: one chunk of io.Copy(outputFile, inputFile), written at the
\* offset of outputFile.
CopyWrite(p) ==
    /\ pc[p] = "write"
    /\ local[p].offset < ArtLen
    /\ \/ /\ bufFile' = [bufFile EXCEPT
                           !.content = WriteAt(@, local[p].offset,
                                               <<tempFile[p].art, local[p].offset + 1>>)]
          /\ local' = [local EXCEPT ![p].offset = @ + 1]
          /\ UNCHANGED <<pc, runErr>>
       \/ /\ Return(p, Err("copyFile"))
          /\ UNCHANGED bufFile
    /\ UNCHANGED <<interrupt, blockedInterrupt, tempFile, requests, steps, outcome,
                   stderr, launched, matched>>

\* copyFile: io.Copy has reached the end of inputFile; the deferred
\* outputFile.Close and inputFile.Close run.
CopyClose(p) ==
    /\ pc[p] = "write"
    /\ local[p].offset = ArtLen
    /\ \/ /\ Did(p, "copied")
          /\ pc' = [pc EXCEPT ![p] = "chmod"]
          /\ UNCHANGED <<runErr, local>>
       \/ /\ Return(p, Err("copyFile"))
          /\ UNCHANGED steps
    /\ UNCHANGED <<interrupt, blockedInterrupt, tempFile, requests, outcome, stderr,
                   launched, bufFile, matched>>

\* os.Chmod(bufFilePath, 0700), then return nil
Chmod(p) ==
    /\ pc[p] = "chmod"
    /\ \/ /\ bufFile' = [bufFile EXCEPT !.mode = "rwx"]
          /\ Did(p, "chmodded")
          /\ Return(p, NilErr)
       \/ /\ Return(p, Err("chmod"))
          /\ UNCHANGED <<steps, bufFile>>
    /\ UNCHANGED <<interrupt, blockedInterrupt, tempFile, requests, outcome, stderr,
                   launched, matched>>

\* Mutant of DeferRemove: the error downloadBufToFilePath was returning is
\* lost in the deferred function, and run() goes on as after a success.
DeferRemoveLosingError(p) ==
    /\ pc[p] = "deferRemove"
    /\ \E removed \in BOOLEAN :
          tempFile' = [tempFile EXCEPT ![p] = IF removed THEN NoTemp ELSE @]
    /\ pc' = [pc EXCEPT ![p] = "print"]
    /\ local' = [local EXCEPT ![p] = NoLocal]
    /\ UNCHANGED <<runErr, outcome, stderr>>
    /\ UNCHANGED <<interrupt, blockedInterrupt, requests, steps, launched, bufFile,
                   matched>>

\* The deferred function of downloadBufToFilePath: os.Remove(tempFilePath),
\* whose error becomes retErr when there was none. Then run() goes on, or
\* returns the error.
DeferRemove(p) ==
    /\ pc[p] = "deferRemove"
    /\ \E removed \in BOOLEAN :
          LET retErr == IF ~removed /\ runErr[p].name = "nil"
                        THEN Err("failed to remove source file")
                        ELSE runErr[p]
          IN  /\ tempFile' = [tempFile EXCEPT ![p] = IF removed THEN NoTemp ELSE @]
              /\ IF retErr.name = "nil"
                 THEN /\ pc' = [pc EXCEPT ![p] = "print"]
                      /\ local' = [local EXCEPT ![p] = NoLocal]
                      /\ UNCHANGED <<runErr, outcome, stderr>>
                 ELSE Exit(p, retErr)
    /\ UNCHANGED <<interrupt, blockedInterrupt, requests, steps, launched, bufFile,
                   matched>>

\* fmt.Fprintf(os.Stderr, "bufisk: downloaded buf to %s\n\n", bufFilePath)
PrintDownloaded(p) ==
    /\ pc[p] = "print"
    /\ \/ /\ stderr' = [stderr EXCEPT ![p] = Append(@, Err("downloaded buf to"))]
          /\ pc' = [pc EXCEPT ![p] = "exec"]
          /\ UNCHANGED <<runErr, local, outcome>>
       \/ Exit(p, Err("fmt.Fprintf"))
    /\ UNCHANGED <<interrupt, blockedInterrupt, tempFile, requests, steps, launched,
                   bufFile, matched>>

\* Whether the file can be executed at all: it exists with the executable bit.
Executable(file) == file.exists /\ file.mode = "rwx"

\* cmd.Run() up to the start of the child: with ctx done Start returns its
\* error; a file that is not executable, or any other failure of fork and
\* exec, is returned too. Otherwise the child runs what the file holds now.
Exec(p) ==
    /\ pc[p] = "exec"
    /\ IF CtxDone(p)
       THEN /\ Exit(p, Err("context canceled"))
            /\ UNCHANGED <<steps, launched>>
       ELSE \/ /\ Executable(bufFile)
               /\ launched' = [launched EXCEPT
                                 ![p] = [started |-> TRUE, content |-> bufFile.content,
                                         code |-> {}]]
               /\ Did(p, "started")
               /\ pc' = [pc EXCEPT ![p] = "wait"]
               /\ UNCHANGED <<runErr, local, outcome, stderr>>
            \/ /\ Exit(p, Err("exec"))
               /\ UNCHANGED <<steps, launched>>
    /\ UNCHANGED <<interrupt, blockedInterrupt, tempFile, requests, bufFile, matched>>

\* The exit codes a child chooses.
ChildExitCodes == {0, 2}

\* Mutant of ExitStatus: every error of run(), the child's own exit included,
\* ends the parent with the fixed status.
ExitStatusFixed(err, childCode) == IF err.name = "nil" THEN 0 ELSE 1

\* The status main exits with once run() returned err: 0 for nil,
\* exitError.ExitCode() for an *exec.ExitError, and 1 for any other error.
ExitStatus(err, childCode) ==
    IF err.name = "nil"
    THEN 0
    ELSE IF err.name = "exec.ExitError"
    THEN childCode
    ELSE 1

\* main, once cmd.Run() has returned the child's own exit: nil for 0, an
\* *exec.ExitError otherwise, whose code is passed to os.Exit and whose
\* message is swallowed.
ChildExit(p) ==
    /\ pc[p] = "wait"
    /\ ~CtxDone(p)
    /\ \E code \in ChildExitCodes :
          LET err == IF code = 0 THEN NilErr ELSE Err("exec.ExitError")
          IN  /\ launched' = [launched EXCEPT ![p].code = {code}]
              /\ runErr' = [runErr EXCEPT ![p] = err]
              /\ outcome' = [outcome EXCEPT ![p] = {ExitStatus(err, code)}]
    /\ pc' = [pc EXCEPT ![p] = "done"]
    /\ local' = [local EXCEPT ![p] = NoLocal]
    /\ UNCHANGED <<interrupt, blockedInterrupt, tempFile, requests, steps, stderr,
                   bufFile, matched>>

\* exec.CommandContext: ctx is done before the child ended, the child is
\* killed, and cmd.Run() returns an *exec.ExitError whose ExitCode() is -1.
ChildKilled(p) ==
    /\ pc[p] = "wait"
    /\ CtxDone(p)
    /\ launched' = [launched EXCEPT ![p].code = {-1}]
    /\ runErr' = [runErr EXCEPT ![p] = Err("exec.ExitError")]
    /\ outcome' = [outcome EXCEPT ![p] = {ExitStatus(Err("exec.ExitError"), -1)}]
    /\ pc' = [pc EXCEPT ![p] = "done"]
    /\ local' = [local EXCEPT ![p] = NoLocal]
    /\ UNCHANGED <<interrupt, blockedInterrupt, tempFile, requests, steps, stderr,
                   bufFile, matched>>

\* An interrupt signal reaches the invocation and is put in interruptSignalC
\* (one signal an invocation).
Interrupt(p) ==
    /\ pc[p] \notin {"run", "done"}
    /\ interrupt[p] = "none"
    /\ interrupt' = [interrupt EXCEPT ![p] = "pending"]
    /\ blockedInterrupt' = [blockedInterrupt EXCEPT ![p] = pc[p] \in SuspensionPoints]
    /\ UNCHANGED <<pc, tempFile, local, runErr, requests, steps,
                   outcome, stderr, launched, bufFile, matched>>

\* The goroutine of withCancelInterruptSignal: <-interruptSignalC, closer(),
\* cancel(). It runs only while the process does.
SignalGoroutine(p) ==
    /\ pc[p] # "done"
    /\ interrupt[p] = "pending"
    /\ interrupt' = [interrupt EXCEPT ![p] = "cancelled"]
    /\ blockedInterrupt' = [blockedInterrupt EXCEPT ![p] = @ /\ pc[p] \in SuspensionPoints]
    /\ UNCHANGED <<pc, tempFile, local, runErr, requests, steps, outcome, stderr,
                   launched, bufFile, matched>>

\* ------------------------------------------------------ specifications

\* The version state while the invocations run: BUF_VERSION is set.
VersionResolved ==
    /\ platform = "posix"
    /\ envVersion = <<"7", ".", "8", ".", "9">>
    /\ getwdOK = TRUE
    /\ pwd = 0
    /\ files = [d \in Depths |-> MissingFile]
    /\ vpc = "done"
    /\ curDirPath = 0
    /\ readFiles = {}
    /\ rereadFiles = {}
    /\ result = validateBufVersion(envVersion, <<useBufVersionEnvKey>>)

Init == PipelineInit /\ VersionResolved /\ CacheIdle

Next ==
    \E p \in Procs :
        \/ RunStart(p) /\ UNCHANGED <<versionVars, cacheVars>>
        \/ Stat(p) /\ UNCHANGED <<versionVars, cacheVars>>
        \/ ArtifactRequest(p) /\ UNCHANGED <<versionVars, cacheVars>>
        \/ ArtifactResponse(p) /\ UNCHANGED <<versionVars, cacheVars>>
        \/ ArtifactBody(p) /\ UNCHANGED <<versionVars, cacheVars>>
        \/ Sha256TxtRequest(p) /\ UNCHANGED <<versionVars, cacheVars>>
        \/ Sha256TxtResponse(p) /\ UNCHANGED <<versionVars, cacheVars>>
        \/ MinisigRequest(p) /\ UNCHANGED <<versionVars, cacheVars>>
        \/ MinisigResponse(p) /\ UNCHANGED <<versionVars, cacheVars>>
        \/ Verify(p) /\ UNCHANGED <<versionVars, cacheVars>>
        \/ GetSha256Hex(p) /\ UNCHANGED <<versionVars, cacheVars>>
        \/ HashFile(p) /\ UNCHANGED <<versionVars, cacheVars>>
        \/ Compare(p) /\ UNCHANGED <<versionVars, cacheVars>>
        \/ CopyOpen(p) /\ UNCHANGED <<versionVars, cacheVars>>
        \/ CopyCreate(p) /\ UNCHANGED <<versionVars, cacheVars>>
        \/ CopyWrite(p) /\ UNCHANGED <<versionVars, cacheVars>>
        \/ CopyClose(p) /\ UNCHANGED <<versionVars, cacheVars>>
        \/ Chmod(p) /\ UNCHANGED <<versionVars, cacheVars>>
        \/ DeferRemove(p) /\ UNCHANGED <<versionVars, cacheVars>>
        \/ PrintDownloaded(p) /\ UNCHANGED <<versionVars, cacheVars>>
        \/ Exec(p) /\ UNCHANGED <<versionVars, cacheVars>>
        \/ ChildExit(p) /\ UNCHANGED <<versionVars, cacheVars>>
        \/ ChildKilled(p) /\ UNCHANGED <<versionVars, cacheVars>>
        \/ Interrupt(p) /\ UNCHANGED <<versionVars, cacheVars>>
        \/ SignalGoroutine(p) /\ UNCHANGED <<versionVars, cacheVars>>

Spec == Init /\ [][Next]_vars

InitVersion == VersionInit /\ PipelineInit /\ CacheIdle

NextVersion ==
    \/ GetBufVersionStart /\ UNCHANGED <<pipelineVars, cacheVars>>
    \/ GetBufVersionWalk /\ UNCHANGED <<pipelineVars, cacheVars>>

SpecVersion == InitVersion /\ [][NextVersion]_vars

\* The versions the cache path is computed for.
CacheVersions ==
    { <<"7", ".", "8", ".", "9">>,
      <<"7", ".", "8", ".", "1", "0">> }

\* run() from the version on, in either build, for every setting of the
\* variables, either architecture and an override that is a version.
InitCache ==
    /\ platform \in Platforms
    /\ envVersion \in CacheVersions
    /\ getwdOK = TRUE
    /\ pwd = 0
    /\ files = [d \in Depths |-> MissingFile]
    /\ vpc = "done"
    /\ curDirPath = 0
    /\ readFiles = {}
    /\ rereadFiles = {}
    /\ result = validateBufVersion(envVersion, <<useBufVersionEnvKey>>)
    /\ PipelineInit
    /\ environ \in {[k \in EnvKeys |-> IF k \in set THEN SetValue(k) ELSE <<>>] :
                       set \in SUBSET EnvKeys}
    /\ unameM \in Architectures
    /\ cpc = "cacheDir"
    /\ cacheDirPath = <<>>
    /\ bufFilePath = <<>>
    /\ cacheErr = "nil"
    /\ statPaths = {}

NextCache ==
    \/ RunCacheDirPath /\ UNCHANGED <<versionVars, pipelineVars>>
    \/ RunBufFilePath /\ UNCHANGED <<versionVars, pipelineVars>>
    \/ RunStat /\ UNCHANGED <<versionVars, pipelineVars>>

SpecCache == InitCache /\ [][NextCache]_vars

\* The characters of the manifests: a hex digit (also a character of a file
\* name), the space, the name fileName, and the newline.
ManifestAlphabet == {"1", " ", "f", "\n"}

\* Every string over ManifestAlphabet of at most MaxManifestLen characters.
ManifestStrings == UNION {[1..n -> ManifestAlphabet] : n \in 0..MaxManifestLen}

\* downloadBufToFilePath right after verifySha256TxtData returned nil, for
\* every sha256.txt the holder of the trusted key may have signed: invocation
\* A holds the artifact in its temporary file, the manifest and the trusted
\* signature over it; the other invocations have not started.
InitManifest ==
    /\ VersionResolved
    /\ CacheIdle
    /\ \E d \in ManifestStrings :
          local = [p \in Procs |->
                     IF p = "A"
                     THEN [NoLocal EXCEPT !.sha256TxtData = d,
                                          !.sha256TxtMinisigData = TrustedSignature(d)]
                     ELSE NoLocal]
    /\ pc = [p \in Procs |-> IF p = "A" THEN "getSha256Hex" ELSE "run"]
    /\ tempFile = [p \in Procs |->
                     IF p = "A"
                     THEN [exists |-> TRUE, art |-> "art1", complete |-> TRUE]
                     ELSE NoTemp]
    /\ requests = [p \in Procs |->
                     IF p = "A"
                     THEN <<"artifact", "sha256.txt", "sha256.txt.minisig">>
                     ELSE <<>>]
    /\ steps = [p \in Procs |->
                  IF p = "A" THEN <<"miss", "minisign.Verify", "verified">> ELSE <<>>]
    /\ interrupt = [p \in Procs |-> "none"]
    /\ blockedInterrupt = [p \in Procs |-> FALSE]
    /\ runErr = [p \in Procs |-> NilErr]
    /\ outcome = [p \in Procs |-> {}]
    /\ stderr = [p \in Procs |-> <<>>]
    /\ launched = [p \in Procs |-> NotLaunched]
    /\ bufFile = NoBufFile
    /\ matched = {}

NextManifest ==
    \E p \in Procs : GetSha256Hex(p) /\ UNCHANGED <<versionVars, cacheVars>>

SpecManifest == InitManifest /\ [][NextManifest]_vars

\* The characters of the strings BUF_VERSION is drawn from: a digit, the
\* separator, the signs strconv.Atoi knows and a letter.
VersionAlphabet == {"1", ".", "+", "-", "v"}

\* Every string over VersionAlphabet of at most MaxVersionLen characters.
VersionStrings == UNION {[1..n -> VersionAlphabet] : n \in 0..MaxVersionLen}

\* getBufVersion in the root directory of a POSIX filesystem that holds no
\* .bufversion, for every value of BUF_VERSION: a non-empty value goes to
\* validateBufVersion as it is.
InitValidate ==
    /\ platform = "posix"
    /\ envVersion \in VersionStrings
    /\ getwdOK = TRUE
    /\ pwd = 0
    /\ files = [d \in Depths |-> MissingFile]
    /\ vpc = "start"
    /\ curDirPath = 0
    /\ readFiles = {}
    /\ rereadFiles = {}
    /\ result = NoResult
    /\ PipelineInit
    /\ CacheIdle

SpecValidate == InitValidate /\ [][NextVersion]_vars

\* --------------------------------------------------------- properties

Range(s) == {s[i] : i \in 1..Len(s)}

\* The steps of a cache miss and of a cache hit, in the order of the code.
MissOrder ==
    <<"miss", "minisign.Verify", "verified", "hashRead", "hashed", "matched",
      "created", "copied", "chmodded", "started">>

HitOrder == <<"hit", "started">>

\* The locals of downloadBufToFilePath are still those of this invocation.
InDownload(p) ==
    pc[p] \notin {"run", "stat", "downloadTempFile", "artifactInFlight",
                  "artifactBody", "print", "exec", "wait", "done"}

\* The signature the invocation holds was made by the trusted key over
\* exactly the manifest bytes it holds.
GenuineManifest(p) ==
    /\ local[p].sha256TxtMinisigData.wf
    /\ local[p].sha256TxtMinisigData.keyID = "trusted"
    /\ local[p].sha256TxtMinisigData.signedBy = "trusted"
    /\ local[p].sha256TxtMinisigData.data = local[p].sha256TxtData

\* The errors that end downloadBufToFilePath before anything is installed.
DownloadErrors ==
    {"could not download buf", "download sha256.txt", "download sha256.txt.minisig"}

SignatureErrors ==
    {"signature.UnmarshalText", "key IDs do not match", "signature verification failed"}

VerificationErrors ==
    DownloadErrors \cup SignatureErrors
    \cup {"could not find", "invalid sha256.txt line", "could not hash", "sha256 mismatch"}

InstallErrors == {"copyFile", "text file busy", "chmod"}

\* C1: on a cache miss the steps of one invocation happen in the order of the
\* pipeline, none skipped: the cache path is created and written only by an
\* invocation whose manifest signature verified and whose artifact hash equals
\* the manifest's, the child is started only after the copy and the chmod
\* succeeded, and an invocation that failed a step has done none of the later
\* stages.
C1_VerifyInstallLaunchOrder ==
    \A p \in Procs :
        /\ HasPrefix(MissOrder, steps[p]) \/ HasPrefix(HitOrder, steps[p])
        /\ pc[p] \in {"write", "chmod"} =>
              /\ GenuineManifest(p)
              /\ getSha256HexForTxtData(local[p].sha256TxtData, fileName).err = "nil"
              /\ Sha256Of(tempFile[p].art)
                    = getSha256HexForTxtData(local[p].sha256TxtData, fileName).hex
        /\ ("miss" \in Range(steps[p]) /\ launched[p].started) =>
              {"verified", "matched", "copied", "chmodded"} \subseteq Range(steps[p])
        /\ runErr[p].name \in VerificationErrors =>
              Range(steps[p]) \cap {"created", "copied", "chmodded", "started"} = {}
        /\ runErr[p].name \in InstallErrors =>
              Range(steps[p]) \cap {"chmodded", "started"} = {}
        /\ runErr[p].name \notin {"nil", "exec.ExitError"} => ~launched[p].started

\* C1 witness: an invocation went through the whole cache-miss pipeline and
\* started the child.
C1_Witness ==
    \E p \in Procs : steps[p] = MissOrder /\ launched[p].started

\* C2: the expected hash is read from the manifest only by an invocation whose
\* signature is the trusted key's over exactly the manifest bytes it holds, and
\* it is the hash those bytes give; an invocation whose signature is anything
\* else returns a signature error, having read no hash and created nothing at
\* the cache path.
C2_HashReadOnlyFromVerifiedManifest ==
    \A p \in Procs :
        /\ (InDownload(p) /\ "hashRead" \in Range(steps[p])) =>
              /\ GenuineManifest(p)
              /\ local[p].sha256ExpectedHex
                    = getSha256HexForTxtData(local[p].sha256TxtData, fileName).hex
        /\ ( /\ InDownload(p)
             /\ pc[p] # "verify"
             /\ local[p].sha256TxtMinisigData # NoSignature
             /\ ~GenuineManifest(p) ) =>
              /\ pc[p] = "deferRemove"
              /\ runErr[p].name \in SignatureErrors
              /\ local[p].sha256ExpectedHex = <<>>
        /\ runErr[p].name \in SignatureErrors =>
              /\ Range(steps[p]) \cap {"verified", "hashRead", "created"} = {}
              /\ pc[p] \in {"deferRemove", "done"}

\* C2 witness: the manifest served is not the one the trusted signature was
\* made over, and the invocation is returning the verification error.
C2_Witness ==
    \E p \in Procs :
        /\ pc[p] = "deferRemove"
        /\ runErr[p].name = "signature verification failed"
        /\ local[p].sha256TxtMinisigData \in {TrustedSignature(d) : d \in SignedManifests}
        /\ local[p].sha256TxtMinisigData.data # local[p].sha256TxtData

\* C3: an invocation whose computed artifact hash differs from the hash it took
\* from the manifest returns the hash-mismatch error and has created nothing at
\* the cache path; while no invocation has created it, the cache path is
\* absent.
C3_MismatchLeavesCachePath ==
    /\ \A p \in Procs :
          /\ ( /\ InDownload(p)
               /\ "hashed" \in Range(steps[p])
               /\ pc[p] # "compare"
               /\ Sha256Of(tempFile[p].art) # local[p].sha256ExpectedHex ) =>
                /\ pc[p] = "deferRemove"
                /\ runErr[p].name = "sha256 mismatch"
          /\ runErr[p].name = "sha256 mismatch" =>
                /\ Range(steps[p]) \cap {"matched", "created", "copied", "chmodded"} = {}
                /\ outcome[p] \subseteq {1}
    /\ (\A q \in Procs : "created" \notin Range(steps[q])) => bufFile = NoBufFile

\* C3 witness: an invocation has ended with the hash-mismatch error and the
\* cache path is absent.
C3_Witness ==
    \E p \in Procs :
        /\ pc[p] = "done"
        /\ runErr[p].name = "sha256 mismatch"
        /\ outcome[p] = {1}
        /\ bufFile = NoBufFile

\* The file at the cache path holds the whole of one artifact.
Complete(file) == \E art \in Artifacts : file.content = Whole(art)

\* An invocation is inside copyFile, between os.Create and the last Close.
Copying(p) == pc[p] = "write"

\* C4 (as claimed): between the steps of copyFile, in every state a sequence
\* of invocations reaches, whatever way each ended, a file at the cache path
\* holds the whole of an artifact whose hash equalled a verified manifest's,
\* and what a child was started on is such a file too.
C4_CachedFileIsVerifiedArtifact ==
    (\A p \in Procs : ~Copying(p)) =>
        /\ bufFile.exists => \E art \in matched : bufFile.content = Whole(art)
        /\ \A p \in Procs :
              launched[p].started => \E art \in matched : launched[p].content = Whole(art)

\* C5 (as claimed): no invocation finds by os.Stat, or starts, a file at the
\* cache path that is not the whole artifact.
C5_NoPartialFileObserved ==
    [][ \A p \in Procs :
          ( \/ pc[p] = "stat" /\ pc'[p] = "exec"
            \/ pc[p] = "exec" /\ pc'[p] = "wait" ) => Complete(bufFile) ]_vars

\* C6: an invocation that found a file at the cache path has sent no HTTP
\* request and made no temporary file: it is starting the file, waiting for the
\* child or done.
C6_CacheHitSendsNoRequest ==
    \A p \in Procs :
        "hit" \in Range(steps[p]) =>
            /\ requests[p] = <<>>
            /\ ~tempFile[p].exists
            /\ pc[p] \in {"exec", "wait", "done"}
            /\ HasPrefix(HitOrder, steps[p])

\* C6 witness: an invocation found the file another had installed and started
\* it.
C6_Witness ==
    \E p \in Procs :
        /\ steps[p] = HitOrder
        /\ launched[p].started
        /\ requests[p] = <<>>

\* C7 (as claimed): once downloadBufToFilePath has returned, on whatever
\* path, the temporary file it created no longer exists.
C7_TempFileRemovedOnEveryExit ==
    \A p \in Procs :
        pc[p] \in {"print", "exec", "wait", "done"} => ~tempFile[p].exists

\* C8 (as claimed): an invocation that was blocked in a download or in the
\* wait for the child when the interrupt signal came and when its context was
\* cancelled ends with a non-zero status and leaves no temporary file.
C8_InterruptUnwindsCleanly ==
    \A p \in Procs :
        (blockedInterrupt[p] /\ CtxDone(p) /\ pc[p] = "done") =>
            /\ outcome[p] # {0}
            /\ ~tempFile[p].exists

\* The ancestors of the working directory (itself included) whose .bufversion
\* can be read.
ReadableLevels == {d \in 0..pwd : files[d].state = "ok"}

\* The nearest of them to the working directory.
Nearest == CHOOSE d \in ReadableLevels : \A e \in ReadableLevels : e <= d

\* C9: with BUF_VERSION set to a non-empty value, getBufVersion never reads a
\* .bufversion file or walks the directories, and what it returns is the
\* value itself when that is a version, and otherwise the invalid-format
\* error that names BUF_VERSION and the value: whatever files there are.
C9_OverrideAloneDecides ==
    envVersion # <<>> =>
        /\ readFiles = {}
        /\ vpc \in {"start", "done"}
        /\ vpc = "done" =>
              /\ result.kind \in {"ok", "invalid"}
              /\ result.value = envVersion
              /\ result.source = <<"BUF_VERSION">>
              /\ result.kind = "ok" <=> envVersion = <<"7", ".", "8", ".", "9">>

\* C9 witness: BUF_VERSION is set, the working directory holds a readable,
\* well-formed .bufversion, and getBufVersion has returned the override.
C9_Witness ==
    /\ envVersion = <<"7", ".", "8", ".", "9">>
    /\ getwdOK
    /\ files[pwd] = ReadableFile(<<"1", ".", "2", ".", "3", "\n">>)
    /\ vpc = "done"
    /\ result.kind = "ok"
    /\ result.value = envVersion

\* C10: with BUF_VERSION unset and a working directory, when some level from
\* the working directory up to the root holds a readable .bufversion,
\* getBufVersion returns what the nearest such file decides: its trimmed
\* content when that is a version, otherwise the invalid-format error naming
\* that file; the levels it read are the nearest one and those below it, and
\* no farther ancestor was read.
C10_NearestReadableFileDecides ==
    (envVersion = <<>> /\ getwdOK /\ vpc = "done" /\ ReadableLevels # {}) =>
        LET trimmed == TrimSpace(files[Nearest].data)
        IN  /\ result.kind \in {"ok", "invalid"}
            /\ result.kind = validateBufVersion(trimmed, <<>>).kind
            /\ result.value = trimmed
            /\ result.source = FilePath(Nearest)
            /\ readFiles = Nearest..pwd

\* C10 witness: the working directory's file is missing, its parent's is
\* malformed and the root's is well-formed; the result is the invalid-format
\* error naming the parent's file.
C10_Witness ==
    /\ envVersion = <<>>
    /\ getwdOK
    /\ vpc = "done"
    /\ pwd = 2
    /\ files[2].state \in {"missing", "unreadable"}
    /\ files[1] = ReadableFile(<<"1", ".", "2", "\n">>)
    /\ files[0] = ReadableFile(<<"1", ".", "2", ".", "3", "\n">>)
    /\ result = [kind |-> "invalid", value |-> <<"1", ".", "2">>, source |-> FilePath(1)]

\* MAJOR.MINOR.PATCH: exactly two dots, each between two digits, and nothing
\* but decimal digits around them.
IsUnsignedTriple(s) ==
    LET dots == {i \in 1..Len(s) : s[i] = "."}
    IN  /\ Cardinality(dots) = 2
        /\ \A i \in 1..Len(s) : s[i] \in Digits \cup {"."}
        /\ 1 \notin dots
        /\ Len(s) \notin dots
        /\ \A i \in dots : i + 1 \notin dots

\* C11 (as claimed): validateBufVersion accepts the value of BUF_VERSION
\* exactly when it is three non-empty runs of decimal digits separated by
\* dots, with no sign and no letter; it returns an accepted value unchanged
\* and rejects every other value with the invalid-format error.
C11_AcceptsExactlyUnsignedTriples ==
    (vpc = "done" /\ envVersion # <<>>) =>
        /\ result.kind \in {"ok", "invalid"}
        /\ result.value = envVersion
        /\ result.kind = "ok" <=> IsUnsignedTriple(envVersion)

\* C12 (as claimed): with BUF_VERSION unset, a working directory and no
\* readable .bufversion at any level, on either platform the walk reads every
\* level once, is over once it has read the root, and returns the
\* unresolved-version error that names BUF_VERSION and .bufversion.
C12_WalkEndsAtRoot ==
    (envVersion = <<>> /\ getwdOK /\ ReadableLevels = {}) =>
        /\ rereadFiles = {}
        /\ 0 \in readFiles => vpc = "done"
        /\ vpc = "done" =>
              /\ result.kind = "unresolved"
              /\ result.source = <<"BUF_VERSION", ".bufversion">>
              /\ readFiles = 0..pwd

\* The line main prints for err, and the notice run() prints after a download.
ErrorLines(p) == {i \in 1..Len(stderr[p]) : stderr[p][i].name # "downloaded buf to"}

C14_ReinstallIsNoError ==
    (\A q \in Procs : "miss" \in Range(steps[q])) =>
        \A p \in Procs : runErr[p].name # "text file busy"

\* The first run: the invocation went through the whole cache-miss pipeline,
\* started the child and has ended.
FirstRunDone(p) == pc[p] = "done" /\ steps[p] = MissOrder

\* C15: once an invocation has installed the file and ended, every step of
\* another invocation that had not found the cache path absent leaves the file
\* at the cache path, whole and executable, exactly as it is; its existence
\* check is a cache hit, and it has sent no request, made no temporary file
\* and done no create, copy or chmod.
C15_SecondRunIsCacheHit ==
    [][ \A p, q \in Procs :
          (p # q /\ FirstRunDone(p) /\ "miss" \notin Range(steps[q])) =>
              /\ (pc[q] = "stat" /\ pc'[q] # "stat") =>
                    (pc'[q] = "exec" /\ steps'[q] = <<"hit">>)
              /\ requests'[q] = <<>>
              /\ ~tempFile'[q].exists
              /\ Range(steps'[q]) \cap {"created", "copied", "chmodded"} = {}
              /\ bufFile.mode = "rwx"
              /\ \E art \in matched : bufFile.content = Whole(art)
              /\ bufFile' = bufFile ]_vars

\* C15 witness: the first run installed the file and ended; the second run
\* found it, was started on the same content and has ended too.
C15_Witness ==
    \E p, q \in Procs :
        /\ FirstRunDone(p)
        /\ pc[q] = "done"
        /\ steps[q] = HitOrder
        /\ launched[q].content = launched[p].content
        /\ bufFile.content = launched[p].content
        /\ Executable(bufFile)

\* Neither BUFISK_CACHE_DIR nor a variable the platform default is taken from
\* is set.
NoCacheRoot ==
    /\ environ["BUFISK_CACHE_DIR"] = <<>>
    /\ IF platform = "windows"
       THEN environ["LOCALAPPDATA"] = <<>>
       ELSE environ["XDG_CACHE_HOME"] = <<>> /\ environ["HOME"] = <<>>

\* The cache root: the override, else the platform default with bufisk added.
ExpectedRoot ==
    IF environ["BUFISK_CACHE_DIR"] # <<>>
    THEN environ["BUFISK_CACHE_DIR"]
    ELSE IF platform = "windows"
    THEN environ["LOCALAPPDATA"] \o <<<<"bufisk">>>>
    ELSE IF environ["XDG_CACHE_HOME"] # <<>>
    THEN environ["XDG_CACHE_HOME"] \o <<<<"bufisk">>>>
    ELSE environ["HOME"] \o <<<<".cache">>, <<"bufisk">>>>

\* root/OS/arch/releases/buf/version/bin/buf
ExpectedPath(version) ==
    ExpectedRoot
    \o << <<IF platform = "windows" THEN "Windows" ELSE "Linux">>, <<unameM>>,
           <<"releases">>, <<"buf">>, version, <<"bin">>, <<"buf">> >>

\* C16: the path run() computes, and is the only one it gives to os.Stat, is
\* root/OS/arch/releases/buf/version/bin/buf for the root the variables give,
\* and not the path of another version; with no variable to take a root from,
\* run() returns the platform's no-cache-root error, having computed no path
\* and called os.Stat on none, and it returns that error in no other case.
C16_CachePathIsFunctionOfKey ==
    /\ cpc \in {"stat", "statted"} =>
          /\ ~NoCacheRoot
          /\ bufFilePath = ExpectedPath(result.value)
          /\ \A v \in CacheVersions \ {result.value} : bufFilePath # ExpectedPath(v)
    /\ cpc = "statted" => statPaths = {bufFilePath}
    /\ cpc # "statted" => statPaths = {}
    /\ (NoCacheRoot /\ cpc # "cacheDir") =>
          /\ cpc = "failed"
          /\ cacheErr = IF platform = "windows"
                        THEN "%LocalAppData% is not set"
                        ELSE "$XDG_CACHE_HOME and $HOME are not set"
          /\ bufFilePath = <<>>
    /\ cpc = "failed" => NoCacheRoot

\* C16 witness: on unix with only HOME set, os.Stat was called on
\* HOME/.cache/bufisk/Linux/arm64/releases/buf/7.8.10/bin/buf.
C16_Witness ==
    /\ platform = "posix"
    /\ environ["BUFISK_CACHE_DIR"] = <<>>
    /\ environ["XDG_CACHE_HOME"] = <<>>
    /\ cpc = "statted"
    /\ statPaths =
          { << <<"HOME">>, <<".cache">>, <<"bufisk">>, <<"Linux">>, <<"arm64">>,
               <<"releases">>, <<"buf">>, <<"7", ".", "8", ".", "1", "0">>,
               <<"bin">>, <<"buf">> >> }

\* C17 (as claimed): with BUF_CACHE_DIR set, the cache path lies under its
\* value, and run() does not fail for want of a cache root.
C17_BufCacheDirDecides ==
    environ["BUF_CACHE_DIR"] # <<>> =>
        /\ cpc \in {"stat", "statted"} => HasPrefix(bufFilePath, environ["BUF_CACHE_DIR"])
        /\ cpc # "failed"

\* C18: an invocation whose signature parses and carries a key identifier
\* other than the trusted key's returns the key-mismatch error, whoever made
\* the signature and whatever it was made over, and minisign.Verify was not
\* called; no invocation that returned the key-mismatch error called it.
C18_KeyMismatchBeforeVerify ==
    \A p \in Procs :
        /\ ( /\ InDownload(p)
             /\ pc[p] # "verify"
             /\ local[p].sha256TxtMinisigData.wf
             /\ local[p].sha256TxtMinisigData.keyID # "trusted" ) =>
              /\ pc[p] = "deferRemove"
              /\ runErr[p].name = "key IDs do not match"
        /\ runErr[p].name = "key IDs do not match" =>
              Range(steps[p]) \cap {"minisign.Verify", "verified", "hashRead"} = {}

\* C18 witness: the signature is the trusted key's over the very manifest
\* served, under another key identifier, and the invocation is returning the
\* key-mismatch error.
C18_Witness ==
    \E p \in Procs :
        /\ pc[p] = "deferRemove"
        /\ runErr[p].name = "key IDs do not match"
        /\ local[p].sha256TxtMinisigData.signedBy = "trusted"
        /\ local[p].sha256TxtMinisigData.data = local[p].sha256TxtData

\* The requests of downloadBufToFilePath, in the order of its calls.
RequestOrder == <<"artifact", "sha256.txt", "sha256.txt.minisig">>

\* C19: the requests an invocation has sent are the artifact, sha256.txt and
\* sha256.txt.minisig, in this order and each at most once; an invocation that
\* has an error sends no request in any later step, and after a failed
\* download it only runs the deferred removal and ends with status 1.
C19_NoRetry ==
    [][ \A p \in Procs :
          /\ HasPrefix(RequestOrder, requests'[p])
          /\ runErr[p].name # "nil" => requests'[p] = requests[p]
          /\ runErr'[p].name \in DownloadErrors =>
                /\ pc'[p] \in {"deferRemove", "done"}
                /\ pc'[p] = "done" => outcome'[p] = {1} ]_vars

\* C19 witness: the download of sha256.txt failed, and the invocation ended
\* having sent the request for the artifact and one for sha256.txt.
C19_Witness ==
    \E p \in Procs :
        /\ pc[p] = "done"
        /\ runErr[p].name = "download sha256.txt"
        /\ requests[p] = <<"artifact", "sha256.txt">>
        /\ interrupt[p] = "none"

\* C20 (as claimed): an invocation has sent the request for the artifact, or
\* has a temporary file, only after its manifest signature verified.
C20_ManifestVerifiedBeforeArtifact ==
    \A p \in Procs :
        ("artifact" \in Range(requests[p]) \/ tempFile[p].exists) =>
            "verified" \in Range(steps[p])

\* C20 (amended): the artifact is fetched first: the first request is the one
\* for the artifact, and from the request for the manifest until
\* downloadBufToFilePath returns, the temporary file holds the whole body; the
\* signature is verified after all three downloads; the cache path is created
\* only after the signature verified and the hash matched, and after a miss
\* the child is started only after the chmod.
C20_ArtifactThenVerifyThenInstall ==
    \A p \in Procs :
        /\ requests[p] # <<>> => requests[p][1] = "artifact"
        /\ InDownload(p) =>
              /\ tempFile[p].exists /\ tempFile[p].complete
              /\ "artifact" \in Range(requests[p])
        /\ "verified" \in Range(steps[p]) => requests[p] = RequestOrder
        /\ "created" \in Range(steps[p]) =>
              {"verified", "matched"} \subseteq Range(steps[p])
        /\ ("miss" \in Range(steps[p]) /\ "started" \in Range(steps[p])) =>
              "chmodded" \in Range(steps[p])

\* C20 witness: the artifact is whole in the temporary file, nothing is
\* verified yet, and the request for the manifest is in flight.
C20_Witness ==
    \E p \in Procs :
        /\ pc[p] = "sha256TxtInFlight"
        /\ tempFile[p].exists /\ tempFile[p].complete
        /\ requests[p] = <<"artifact", "sha256.txt">>
        /\ "verified" \notin Range(steps[p])

\* The lines of the manifest an invocation holds.
ManifestLines(p) == Split(local[p].sha256TxtData, <<"\n">>)

\* getSha256HexForTxtData has returned to the invocation.
HashLookupDone(p) ==
    \/ pc[p] = "hashFile"
    \/ pc[p] = "deferRemove" /\ runErr[p].name \in {"could not find", "invalid sha256.txt line"}

\* C21 (as claimed): the hash getSha256HexForTxtData returned is the hash
\* field of a line that is exactly that hash, two spaces and the target file
\* name; and when the manifest holds such a line, one is found.
C21_HashOfExactFileName ==
    \A p \in Procs :
        /\ pc[p] = "hashFile" =>
              \E i \in 1..Len(ManifestLines(p)) :
                  ManifestLines(p)[i] = local[p].sha256ExpectedHex \o <<" ", " ">> \o fileName
        /\ (pc[p] = "deferRemove" /\ runErr[p].name = "could not find") =>
              \A i \in 1..Len(ManifestLines(p)) :
                  ~HasSuffix(ManifestLines(p)[i], <<" ", " ">> \o fileName)

\* The lines of the manifest that end with the target file name.
EndingWithFileName(p) ==
    {i \in 1..Len(ManifestLines(p)) : HasSuffix(ManifestLines(p)[i], fileName)}

\* The first of them.
FirstEndingWithFileName(p) ==
    CHOOSE i \in EndingWithFileName(p) : \A j \in EndingWithFileName(p) : i <= j

\* C22: once getSha256HexForTxtData has returned, the first line of the
\* manifest that ends with the target file name has decided: with exactly two
\* fields around the two-space separator the first field is the returned hash
\* and there is no error, with any other number of fields the result is the
\* malformed-line error whatever the later lines are; and with no line ending
\* with the target file name (the empty manifest included) the result is the
\* not-in-manifest error.
C22_FirstLineEndingWithNameDecides ==
    \A p \in Procs :
        HashLookupDone(p) =>
            IF EndingWithFileName(p) = {}
            THEN pc[p] = "deferRemove" /\ runErr[p].name = "could not find"
            ELSE LET fields == Split(ManifestLines(p)[FirstEndingWithFileName(p)], <<" ", " ">>)
                 IN  IF Len(fields) = 2
                     THEN /\ pc[p] = "hashFile"
                          /\ runErr[p] = NilErr
                          /\ local[p].sha256ExpectedHex = fields[1]
                     ELSE /\ pc[p] = "deferRemove"
                          /\ runErr[p].name = "invalid sha256.txt line"

\* The malformed-line error was returned for a manifest in which a later line
\* is a well-formed record ending with the target file name.
C22_Witness ==
    \E p \in Procs :
        /\ HashLookupDone(p)
        /\ runErr[p].name = "invalid sha256.txt line"
        /\ \E j \in EndingWithFileName(p) :
              /\ j > FirstEndingWithFileName(p)
              /\ Len(Split(ManifestLines(p)[j], <<" ", " ">>)) = 2

\* C23 (as claimed): while downloadBufToFilePath returns the hash-mismatch
\* error, the value the error reports as expected is the hash the verified
\* manifest declares for the file and the value it reports as got is the hash
\* computed over the downloaded artifact.
C23_MismatchNamesHashesInRole ==
    \A p \in Procs :
        (pc[p] = "deferRemove" /\ runErr[p].name = "sha256 mismatch") =>
            /\ runErr[p].expected =
                   getSha256HexForTxtData(local[p].sha256TxtData, fileName).hex
            /\ runErr[p].got = Sha256Of(tempFile[p].art)

=============================================================================
